---- MODULE Spec2Model ----
(***************************************************************************)
(* A model of jellyfin-subfix (src/src/main.rs): discovery of videos and   *)
(* subtitles in a directory, validation of the videos, deduplication of    *)
(* the subtitles and the naming of the symlinks.                           *)
(*                                                                         *)
(* Strings are sequences of characters (one-character strings); the        *)
(* regular expressions of the program are evaluated character by           *)
(* character.  A character outside ASCII is written by its code point      *)
(* ("U+0663") and counts for two bytes.                                    *)
(***************************************************************************)
EXTENDS Integers, Sequences, FiniteSets, TLC

VARIABLES
    path,        \* SpecParse: the path handed to Video::from_path / Subtitle::new
    entry,       \* SpecParse: what the constructor returned
    videoFiles,  \* Spec: file names of the directory, in the order WalkDir yields them
    subFiles,    \* Spec: subtitle paths below the directory, sorted by file name
    run,         \* Spec: the record of process() on that directory
    args,        \* SpecMain: the command line's directory arguments
    cwd,         \* SpecMain: the process's current working directory
    argi,        \* SpecMain: how many arguments for_each has consumed
    runs,        \* SpecMain: per consumed argument, what main did with it
    fs           \* SpecMain: the directories of the file system and what they hold

vars == <<path, entry, videoFiles, subFiles, run, args, cwd, argi, runs, fs>>

----------------------------------------------------------------------------
(* Characters and strings *)

AsciiDigits == {"0", "1", "2", "3", "4", "5", "6", "7", "8", "9"}

\* ARABIC-INDIC DIGIT THREE: a decimal digit (\d of the regex crate is
\* Unicode-aware) that takes two bytes in UTF-8.
ArabicIndicThree == "U+0663"

NonAscii == {ArabicIndicThree}

Utf8Len(c) == IF c \in NonAscii THEN 2 ELSE 1

RECURSIVE ByteLen(_)
ByteLen(s) == IF s = <<>> THEN 0 ELSE Utf8Len(Head(s)) + ByteLen(Tail(s))

DigitValue(c) ==
    CASE c = "0" -> 0 [] c = "1" -> 1 [] c = "2" -> 2 [] c = "3" -> 3
      [] c = "4" -> 4 [] c = "5" -> 5 [] c = "6" -> 6 [] c = "7" -> 7
      [] c = "8" -> 8 [] c = "9" -> 9

\* Case folding as the program's case-insensitive regexes and
\* eq_ignore_ascii_case see it, for ASCII letters
Lower(c) ==
    CASE c = "A" -> "a" [] c = "B" -> "b" [] c = "C" -> "c" [] c = "D" -> "d"
      [] c = "E" -> "e" [] c = "F" -> "f" [] c = "G" -> "g" [] c = "H" -> "h"
      [] c = "I" -> "i" [] c = "J" -> "j" [] c = "K" -> "k" [] c = "L" -> "l"
      [] c = "M" -> "m" [] c = "N" -> "n" [] c = "O" -> "o" [] c = "P" -> "p"
      [] c = "Q" -> "q" [] c = "R" -> "r" [] c = "S" -> "s" [] c = "T" -> "t"
      [] c = "U" -> "u" [] c = "V" -> "v" [] c = "W" -> "w" [] c = "X" -> "x"
      [] c = "Y" -> "y" [] c = "Z" -> "z"
      [] OTHER -> c

LowerStr(s) == [i \in 1..Len(s) |-> Lower(s[i])]

\* \d
IsDigit(c) == c \in AsciiDigits \cup {ArabicIndicThree}

Drop(s, n) == SubSeq(s, n + 1, Len(s))

Take(s, n) == SubSeq(s, 1, n)

\* str::starts_with
starts_with(s, p) == Len(p) <= Len(s) /\ Take(s, Len(p)) = p

MinOf(S) == CHOOSE i \in S : \A j \in S : i <= j

MaxOf(S) == CHOOSE i \in S : \A j \in S : j <= i

RECURSIVE Concat(_)
Concat(ss) == IF ss = <<>> THEN <<>> ELSE Head(ss) \o Concat(Tail(ss))

----------------------------------------------------------------------------
(* camino::Utf8Path *)

\* The final component of a path.
file_name(p) ==
    LET slashes == {i \in 1..Len(p) : p[i] = "/"}
    IN  IF slashes = {} THEN p ELSE Drop(p, MaxOf(slashes))

\* The position of the dot that splits stem and extension, 0 when there is
\* none (no dot, or only a leading one).
ExtDot(name) ==
    LET dots == {i \in 2..Len(name) : name[i] = "."}
    IN  IF dots = {} THEN 0 ELSE MaxOf(dots)

file_stem(p) ==
    LET name == file_name(p)
    IN  IF ExtDot(name) = 0 THEN name ELSE Take(name, ExtDot(name) - 1)

HasExtension(p) == ExtDot(file_name(p)) # 0

extension(p) == LET name == file_name(p) IN Drop(name, ExtDot(name))

\* Utf8PathBuf::push of a relative component
JoinPath(dir, name) == dir \o <<"/">> \o name

----------------------------------------------------------------------------
(* SeriesInfo *)

NoSeries == [some |-> FALSE, season |-> 0, episode |-> 0]

SomeSeries(s, e) == [some |-> TRUE, season |-> s, episode |-> e]

\* S\d{2}E\d{2}, case-insensitive, matched at position i
SeriesInfoMatchAt(s, i) ==
    /\ i + 5 <= Len(s)
    /\ Lower(s[i]) = "s"
    /\ IsDigit(s[i + 1])
    /\ IsDigit(s[i + 2])
    /\ Lower(s[i + 3]) = "e"
    /\ IsDigit(s[i + 4])
    /\ IsDigit(s[i + 5])

SeriesInfoMatches(s) == {i \in 1..Len(s) : SeriesInfoMatchAt(s, i)}

SERIES_INFO_REGEX_is_match(s) == SeriesInfoMatches(s) # {}

\* The leftmost of the matches at positions hits, <<>> when there is none
LeftmostMatch(s, hits) ==
    IF hits = {} THEN <<>> ELSE SubSeq(s, MinOf(hits), MinOf(hits) + 5)

\* Regex::find
SERIES_INFO_REGEX_find(s) == LeftmostMatch(s, SeriesInfoMatches(s))

\* str::parse::<NonZeroU8> of a two-byte slice: 0 stands for the error
ParseNonZeroU8(ds) ==
    IF \A i \in 1..Len(ds) : ds[i] \in AsciiDigits
    THEN 10 * DigitValue(ds[1]) + DigitValue(ds[2])
    ELSE 0

Err(why) == [ok |-> FALSE, err |-> why, series_info |-> NoSeries]

\* from_str parsing the digits as u8: 00 is accepted
SeriesInfo_from_str_u8(s) ==
    IF ByteLen(s) # 6 \/ ~SERIES_INFO_REGEX_is_match(s)
    THEN Err("doesn't match pattern S01E01")
    ELSE [ok |-> TRUE, err |-> "",
          series_info |-> SomeSeries(10 * DigitValue(s[2]) + DigitValue(s[3]),
                                     10 * DigitValue(s[5]) + DigitValue(s[6]))]

\* <SeriesInfo as FromStr>::from_str
SeriesInfo_from_str(s) ==
    LET season  == ParseNonZeroU8(SubSeq(s, 2, 3))
        episode == ParseNonZeroU8(SubSeq(s, 5, 6))
    IN  IF ByteLen(s) # 6 \/ ~SERIES_INFO_REGEX_is_match(s)
        THEN Err("doesn't match pattern S01E01")
        ELSE IF season = 0 THEN Err("couldn't parse season")
        ELSE IF episode = 0 THEN Err("couldn't parse episode")
        ELSE [ok |-> TRUE, err |-> "", series_info |-> SomeSeries(season, episode)]

\* match SERIES_INFO_REGEX.find(path) { Some(series_info) => .., None => None }
ParseFound(found) ==
    IF found = <<>>
    THEN [ok |-> TRUE, err |-> "", series_info |-> NoSeries]
    ELSE SeriesInfo_from_str(found)

\* The match on SERIES_INFO_REGEX.find(path) that Video::from_path and
\* Subtitle::new share: Ok(None) without a match, else the parse of the match,
\* whose error the ? operator returns to the caller.
ExtractSeriesInfo(p) == ParseFound(SERIES_INFO_REGEX_find(p))

----------------------------------------------------------------------------
(* Video *)

\* Ok(Video { path, series_info }), or the error of the parse
VideoOf(p, si) ==
    IF si.ok
    THEN [ok |-> TRUE, err |-> "", path |-> p, series_info |-> si.series_info]
    ELSE [ok |-> FALSE, err |-> si.err, path |-> p, series_info |-> NoSeries]

Video_from_path(p) == VideoOf(p, ExtractSeriesInfo(p))

part_of_series(video) == video.series_info.some

----------------------------------------------------------------------------
(* isolang::Language, as far as the program uses it *)

W_English == <<"E", "n", "g", "l", "i", "s", "h">>
W_French == <<"F", "r", "e", "n", "c", "h">>
W_Filipino == <<"F", "i", "l", "i", "p", "i", "n", "o">>

NoLang == "none"

\* Language::from_name: the language of an English name
Language_from_name(name) ==
    CASE name = W_English -> "Eng"
      [] name = W_French -> "Fra"
      [] name = W_Filipino -> "Fil"
      [] OTHER -> NoLang

\* Language::to_639_1: the two-letter code, <<>> for a language without one
to_639_1(lang) ==
    CASE lang = "Eng" -> <<"e", "n">>
      [] lang = "Fra" -> <<"f", "r">>
      [] OTHER -> <<>>

to_639_3(lang) ==
    CASE lang = "Eng" -> <<"e", "n", "g">>
      [] lang = "Fra" -> <<"f", "r", "a">>
      [] lang = "Fil" -> <<"f", "i", "l">>

----------------------------------------------------------------------------
(* Subtitle *)

\* ^\d+_ : the length of the match at the start of s, 0 without one
NumberPrefixLen(s) ==
    LET ends == {i \in 2..Len(s) :
                    s[i] = "_" /\ \A j \in 1..(i - 1) : IsDigit(s[j])}
    IN  IF ends = {} THEN 0 ELSE MinOf(ends)

\* NUMBER_PREFIX_REGEX.splitn(file_name, 2).last()
NUMBER_PREFIX_REGEX_splitn_last(s) == Drop(s, NumberPrefixLen(s))

\* Ok(Self { path, lang, series_info }), or the first error: of the
\* language, then of the parse
SubtitleOf(p, lang, si) ==
    IF lang = NoLang
    THEN [ok |-> FALSE, err |-> "couldn't find language", path |-> p,
          lang |-> NoLang, series_info |-> NoSeries]
    ELSE IF ~si.ok
    THEN [ok |-> FALSE, err |-> si.err, path |-> p,
          lang |-> NoLang, series_info |-> NoSeries]
    ELSE [ok |-> TRUE, err |-> "", path |-> p,
          lang |-> lang, series_info |-> si.series_info]

Subtitle_new(p) ==
    SubtitleOf(p,
               Language_from_name(NUMBER_PREFIX_REGEX_splitn_last(file_stem(p))),
               ExtractSeriesInfo(p))

----------------------------------------------------------------------------
(* mod predicates *)

W_mp4 == <<"m", "p", "4">>
W_mkv == <<"m", "k", "v">>
W_avi == <<"a", "v", "i">>
W_srt == <<"s", "r", "t">>
W_vtt == <<"v", "t", "t">>
W_idx == <<"i", "d", "x">>
W_ass == <<"a", "s", "s">>
W_dts == <<"d", "t", "s">>

VIDEO_EXTENSIONS == {W_mp4, W_mkv, W_avi}

SUBTITLE_EXTENSIONS == {W_srt, W_vtt, W_idx, W_ass, W_dts}

\* eq_ignore_ascii_case against a lower-case group
ext_in(ext, group) == LowerStr(ext) \in group

\* A directory entry is [path, is_file].
is_video(dir_entry) ==
    /\ dir_entry.is_file
    /\ HasExtension(dir_entry.path)
    /\ ext_in(extension(dir_entry.path), VIDEO_EXTENSIONS)

is_subtitle(dir_entry) ==
    /\ dir_entry.is_file
    /\ HasExtension(dir_entry.path)
    /\ ext_in(extension(dir_entry.path), SUBTITLE_EXTENSIONS)

all_a_series(videos) == \A i \in 1..Len(videos) : part_of_series(videos[i])

\* no_series with any in place of all
no_series_any(videos) == \E i \in 1..Len(videos) : ~part_of_series(videos[i])

no_series(videos) == \A i \in 1..Len(videos) : ~part_of_series(videos[i])

\* (720p)|(1080p)|(4K( HDR)?), case-insensitive
QualityTokens ==
    { <<"7", "2", "0", "p">>,
      <<"1", "0", "8", "0", "p">>,
      <<"4", "k">>,
      <<"4", "k", " ", "h", "d", "r">> }

\* " - " and a quality token, up to the end of the text
QualityTail(t) ==
    /\ Len(t) >= 3
    /\ Take(t, 3) = <<" ", "-", " ">>
    /\ LowerStr(Drop(t, 3)) \in QualityTokens

\* ( S\d{2}E\d{2})? - ((720p)|(1080p)|(4K( HDR)?))$ matched at position i
SuffixMatchAt(s, i) ==
    LET t == Drop(s, i - 1)
    IN  \/ QualityTail(t)
        \/ /\ Len(t) >= 7
           /\ t[1] = " "
           /\ SeriesInfoMatchAt(t, 2)
           /\ QualityTail(Drop(t, 7))

\* The text before the leftmost of the matches at positions hits, the whole
\* text without a match
TextBefore(s, hits) == IF hits = {} THEN s ELSE Take(s, MinOf(hits) - 1)

\* SEASON_AND_QUALITY_SUFFIX_REGEX.splitn(name, 2).next()
SEASON_AND_QUALITY_SUFFIX_REGEX_splitn_next(s) ==
    TextBefore(s, {i \in 1..Len(s) : SuffixMatchAt(s, i)})

\* Assumes files has 2 or more elements
different_versions_same_media(files) ==
    LET name_prefix ==
            SEASON_AND_QUALITY_SUFFIX_REGEX_splitn_next(file_stem(files[1].path))
    IN  \A i \in 2..Len(files) :
            starts_with(file_stem(files[i].path), name_prefix)

----------------------------------------------------------------------------
(* discovery *)

\* filter_map: the entry built from a directory entry that passes the filter
\* is kept, a failure to build it is logged and the entry skipped
PushIfOk(keep, built, rest) == IF keep /\ built.ok THEN <<built>> \o rest ELSE rest

RECURSIVE discover_videos(_, _)
\* listing: the entries WalkDir yields at depth 1 of in_dir
discover_videos(in_dir, listing) ==
    IF listing = <<>>
    THEN <<>>
    ELSE PushIfOk(is_video(Head(listing)),
                  Video_from_path(JoinPath(in_dir, Head(listing).path)),
                  discover_videos(in_dir, Tail(listing)))

RECURSIVE discover_subtitles(_, _)
\* tree: the entries WalkDir yields below in_root_dir, sorted by file name
discover_subtitles(in_root_dir, tree) ==
    IF tree = <<>>
    THEN <<>>
    ELSE PushIfOk(is_subtitle(Head(tree)),
                  Subtitle_new(JoinPath(in_root_dir, Head(tree).path)),
                  discover_subtitles(in_root_dir, Tail(tree)))

----------------------------------------------------------------------------
(* remove_duplicate_languages *)

\* The key without the episode
SubKey_lang_only(sub) == <<sub.lang, NoSeries>>

SubKey(sub) == <<sub.lang, sub.series_info>>

RECURSIVE Retain(_, _)
\* Vec::retain with the closure's seen vector
Retain(subs, seen) ==
    IF subs = <<>>
    THEN <<>>
    ELSE IF SubKey(Head(subs)) \in seen
    THEN Retain(Tail(subs), seen)
    ELSE <<Head(subs)>> \o Retain(Tail(subs), seen \cup {SubKey(Head(subs))})

\* No deduplication
remove_duplicate_languages_keep_all(subs) == subs

remove_duplicate_languages(subs) == Retain(subs, {})

----------------------------------------------------------------------------
(* create_symlinks *)

DEFAULT == <<"d", "e", "f", "a", "u", "l", "t">>

\* Always the three-letter code
LangTag_639_3(lang) == to_639_3(lang)

\* subtitle.lang.to_639_1().unwrap_or(subtitle.lang.to_639_3())
LangTag(lang) == IF to_639_1(lang) # <<>> THEN to_639_1(lang) ELSE to_639_3(lang)

\* The file name of the link of one pairing
LinkFileName(video, subtitle) ==
    file_stem(video.path)
        \o <<".">> \o LangTag(subtitle.lang)
        \o (IF subtitle.lang = "Eng" THEN <<".">> \o DEFAULT ELSE <<>>)
        \o <<".">> \o extension(subtitle.path)

subtitle_name(in_root_dir, video, subtitle) ==
    JoinPath(in_root_dir, LinkFileName(video, subtitle))

\* videos.iter().flat_map(|video| subtitles.iter().map(|s| (video, s))),
\* as pairs of indices
AllPairs(videos, subtitles) ==
    [k \in 1..(Len(videos) * Len(subtitles)) |->
        <<((k - 1) \div Len(subtitles)) + 1, ((k - 1) % Len(subtitles)) + 1>>]

\* Pairing on the season alone
PairFilter_season(video, subtitle) ==
    video.series_info.season = subtitle.series_info.season

PairFilter(video, subtitle) == video.series_info = subtitle.series_info

MatchingPairs(videos, subtitles) ==
    SelectSeq(AllPairs(videos, subtitles),
              LAMBDA pr : PairFilter(videos[pr[1]], subtitles[pr[2]]))

\* The calls of symlink in order, each with the pairing it is made for.  ok
\* is the call's result, which symlink_results fills in.
create_symlinks(in_root_dir, videos, subtitles) ==
    LET pairs == MatchingPairs(videos, subtitles)
    IN  [k \in 1..Len(pairs) |->
            [video    |-> pairs[k][1],
             subtitle |-> pairs[k][2],
             target   |-> subtitles[pairs[k][2]].path,
             link     |-> subtitle_name(in_root_dir, videos[pairs[k][1]],
                                        subtitles[pairs[k][2]]),
             ok       |-> TRUE]]

----------------------------------------------------------------------------
(* process *)

Outcome(result, why, videos, subs, kept, links) ==
    [result |-> result, why |-> why, videos |-> videos, subs |-> subs,
     kept |-> kept, links |-> links]

\* The checks on the discovered videos: "" when they pass
Validate(videos) ==
    IF Len(videos) = 0 THEN "NoVideosFound"
    ELSE IF Len(videos) = 1 THEN ""
    ELSE IF ~(no_series(videos) \/ all_a_series(videos))
    THEN "MixedSeriesAndMovies"
    ELSE IF ~different_versions_same_media(videos) THEN "InconsistentTitles"
    ELSE ""

\* process from the match on videos.len() on: error is what the checks found
process_checked(in_dir, videos, error, subs, kept) ==
    IF error # ""
    THEN Outcome("Err", error, videos, <<>>, <<>>, <<>>)
    ELSE IF subs = <<>>
    THEN Outcome("Ok", "NoSubtitles", videos, subs, <<>>, <<>>)
    ELSE Outcome("Ok", "Done", videos, subs, kept,
                 create_symlinks(in_dir, videos, kept))

\* process with what the two walks found
process_found(in_dir, videos, subs) ==
    process_checked(in_dir, videos, Validate(videos), subs,
                    remove_duplicate_languages(subs))

\* process linking before it validates
process_links_first(in_dir, listing, tree) ==
    LET videos == discover_videos(in_dir, listing)
        error  == Validate(videos)
        subs   == discover_subtitles(in_dir, tree)
        kept   == remove_duplicate_languages(subs)
        links  == create_symlinks(in_dir, videos, kept)
    IN  IF error # ""
        THEN Outcome("Err", error, videos, <<>>, <<>>, links)
        ELSE IF subs = <<>>
        THEN Outcome("Ok", "NoSubtitles", videos, subs, <<>>, <<>>)
        ELSE Outcome("Ok", "Done", videos, subs, kept, links)

\* process(path) once set_current_dir has succeeded, on what the two walks
\* of path yield
process(in_dir, listing, tree) ==
    process_found(in_dir, discover_videos(in_dir, listing),
                  discover_subtitles(in_dir, tree))

\* The first error of symlink returned with ?: the pairings after it are not
\* attempted and the run fails
symlink_results_abort(outcome, failing) ==
    IF failing = {}
    THEN outcome
    ELSE [outcome EXCEPT
            !.result = "Err",
            !.links = [k \in 1..MinOf(failing) |-> [@[k] EXCEPT !.ok = k \notin failing]]]

\* if let Err(why) = symlink(..) { error!(..) }: the calls in failing return
\* an error, which is logged; the others succeed.
symlink_results(outcome, failing) ==
    [outcome EXCEPT !.links = [k \in DOMAIN @ |-> [@[k] EXCEPT !.ok = k \notin failing]]]

----------------------------------------------------------------------------
(* The directory process() runs on: specification Spec *)

\* main's argument to process() without command-line arguments
InDir == <<".">>

MaxVideos == 2

MaxSubs == 2

\* The entries the directory may hold at depth 1, for the walk of
\* discover_videos: videos of one title in several qualities, of another
\* title, episodes, an episode numbered 00 and a file that is no video.
VideoUniverse ==
    << [path |-> <<"S", "h", "o", "w", " ", "-", " ", "7", "2", "0", "p", ".", "m", "k", "v">>,
       is_file |-> TRUE],
       [path |-> <<"S", "h", "o", "w", " ", "-", " ", "7", "2", "0", "p", ".", "M", "P", "4">>,
       is_file |-> TRUE],
       [path |-> <<"S", "h", "o", "w", "t", "i", "m", "e", " ", "-", " ", "4", "K", " ", "H", "D", "R", ".", "m", "k", "v">>,
       is_file |-> TRUE],
       [path |-> <<"S", "h", "o", "w", " ", "S", "0", "1", "E", "0", "1", " ", "-", " ", "7", "2", "0", "p", ".", "m", "k", "v">>,
       is_file |-> TRUE],
       [path |-> <<"S", "h", "o", "w", " ", "S", "0", "1", "E", "0", "2", " ", "-", " ", "1", "0", "8", "0", "p", ".", "m", "k", "v">>,
       is_file |-> TRUE],
       [path |-> <<"S", "h", "o", "w", " ", "S", "0", "0", "E", "0", "1", " ", "-", " ", "7", "2", "0", "p", ".", "m", "k", "v">>,
       is_file |-> TRUE],
       [path |-> <<"O", "t", "h", "e", "r", " ", "S", "0", "1", "E", "0", "1", " ", "-", " ", "7", "2", "0", "p", ".", "m", "k", "v">>,
       is_file |-> TRUE],
       [path |-> <<"S", "h", "o", "w", ".", "t", "x", "t">>,
       is_file |-> TRUE] >>

\* The files the directory may hold at any depth, for the walk of
\* discover_subtitles, in the order sort_by_file_name yields them.
SubUniverse ==
    << [path |-> <<"2", "_", "E", "n", "g", "l", "i", "s", "h", ".", "s", "r", "t">>,
       is_file |-> TRUE],
       [path |-> <<"E", "n", "g", "l", "i", "s", "h", ".", "s", "r", "t">>,
       is_file |-> TRUE],
       [path |-> <<"F", "i", "l", "i", "p", "i", "n", "o", ".", "s", "r", "t">>,
       is_file |-> TRUE],
       [path |-> <<"F", "r", "e", "n", "c", "h", ".", "v", "t", "t">>,
       is_file |-> TRUE],
       [path |-> <<"S", "0", "0", "E", "0", "1", "/", "E", "n", "g", "l", "i", "s", "h", ".", "s", "r", "t">>,
       is_file |-> TRUE],
       [path |-> <<"S", "0", "1", "E", "0", "1", "/", "E", "n", "g", "l", "i", "s", "h", ".", "s", "r", "t">>,
       is_file |-> TRUE],
       [path |-> <<"S", "0", "1", "E", "0", "2", "/", "E", "n", "g", "l", "i", "s", "h", ".", "s", "r", "t">>,
       is_file |-> TRUE],
       [path |-> <<"S", "0", "1", "E", "0", "2", "/", "F", "o", "o", ".", "s", "r", "t">>,
       is_file |-> TRUE] >>

Injective(f) == \A i, j \in DOMAIN f : f[i] = f[j] => i = j

\* WalkDir yields the entries of a directory in the file system's order: any.
Listings ==
    {[i \in DOMAIN f |-> VideoUniverse[f[i]]] :
        f \in {g \in UNION {[1..n -> DOMAIN VideoUniverse] : n \in 0..MaxVideos} :
                  Injective(g)}}

RECURSIVE SortedSeq(_)
SortedSeq(S) == IF S = {} THEN <<>> ELSE <<MinOf(S)>> \o SortedSeq(S \ {MinOf(S)})

\* sort_by_file_name: the entries come in SubUniverse's order.
Trees ==
    {[i \in DOMAIN SortedSeq(S) |-> SubUniverse[SortedSeq(S)[i]]] :
        S \in {T \in SUBSET (DOMAIN SubUniverse) : Cardinality(T) <= MaxSubs}}

Pending == [result |-> "Pending", why |-> "", videos |-> <<>>, subs |-> <<>>,
            kept |-> <<>>, links |-> <<>>]

NoPath == <<>>

NoEntry ==
    [kind |-> "Pending", ok |-> FALSE, err |-> "", path |-> NoPath,
     lang |-> NoLang, series_info |-> NoSeries]

Init ==
    /\ videoFiles \in Listings
    /\ subFiles \in Trees
    /\ run = Pending
    /\ path = NoPath /\ entry = NoEntry
    /\ args = <<>> /\ cwd = <<>> /\ argi = 0 /\ runs = <<>> /\ fs = <<>>

\* process(".") on the directory; each call of symlink fails or not
Process ==
    /\ run = Pending
    /\ \E outcome \in {process(InDir, videoFiles, subFiles)} :
          \E failing \in SUBSET (1..Len(outcome.links)) :
              run' = symlink_results(outcome, failing)
    /\ UNCHANGED <<path, entry, videoFiles, subFiles, args, cwd, argi, runs, fs>>

Next == Process

Spec == Init /\ [][Next]_vars

----------------------------------------------------------------------------
(* Video::from_path and Subtitle::new on a path: specification SpecParse *)

MaxSegs == 4

\* The pieces a path is put together from: halves of episode codes in both
\* cases, with 00 and without, single characters and a non-ASCII digit.
PathSegments ==
    { <<"S", "0", "1">>, <<"s", "0", "0">>, <<"s", "1">>,
      <<"E", "0", "2">>, <<"e", "0", "0">>, <<"E", "0">>,
      <<"1">>, <<ArabicIndicThree>> }

\* What a path ends in: a video's extension, a subtitle's file name
PathTails == { <<".">> \o W_mkv, <<"/">> \o W_English \o <<".">> \o W_srt }

PathInputs ==
    {Concat(segs) \o tail :
        segs \in UNION {[1..n -> PathSegments] : n \in 0..MaxSegs},
        tail \in PathTails}

Built(kind, r, lang) ==
    [kind |-> kind, ok |-> r.ok, err |-> r.err, path |-> r.path,
     lang |-> lang, series_info |-> r.series_info]

InitParse ==
    /\ path \in PathInputs
    /\ entry = NoEntry
    /\ videoFiles = <<>> /\ subFiles = <<>> /\ run = Pending
    /\ args = <<>> /\ cwd = <<>> /\ argi = 0 /\ runs = <<>> /\ fs = <<>>

VideoFromPath ==
    /\ entry = NoEntry
    /\ entry' = Built("Video", Video_from_path(path), NoLang)
    /\ UNCHANGED <<path, videoFiles, subFiles, run, args, cwd, argi, runs, fs>>

SubtitleNew ==
    /\ entry = NoEntry
    /\ entry' = Built("Subtitle", Subtitle_new(path), Subtitle_new(path).lang)
    /\ UNCHANGED <<path, videoFiles, subFiles, run, args, cwd, argi, runs, fs>>

NextParse == VideoFromPath \/ SubtitleNew

SpecParse == InitParse /\ [][NextParse]_vars

----------------------------------------------------------------------------
(* main over several directory arguments: specification SpecMain *)

MaxArgs == 2

W_Movie_mkv == <<"M", "o", "v", "i", "e", ".", "m", "k", "v">>

W_English_srt == <<"E", "n", "g", "l", "i", "s", "h", ".", "s", "r", "t">>

\* A directory is the sequence of the components of its absolute path.
StartDir == <<<<"w">>>>

DirNames == {<<"a">>, <<"b">>}

AllDirs ==
    {StartDir}
        \cup {StartDir \o <<x>> : x \in DirNames}
        \cup {StartDir \o <<x, y>> : x \in DirNames, y \in DirNames}

\* What a directory holds besides its subdirectories: nothing, or a movie
\* with its English subtitle.  The innermost directories, which have no
\* subdirectories, hold a movie when they exist.
DirKinds == {"absent", "empty", "movie"}

\* A directory exists only inside one that exists; the start directory exists
WellFormed(f) ==
    /\ f[StartDir] # "absent"
    /\ \A d \in AllDirs :
          (Len(d) > 1 /\ f[d] # "absent") => f[Take(d, Len(d) - 1)] # "absent"
    /\ \A d \in AllDirs : Len(d) = 3 => f[d] # "empty"

\* The directory arguments of the command line: relative and absolute
ArgPaths ==
    { <<".">>, <<"a">>, <<"b">>,
      <<"/", "w", "/", "a">>, <<"/", "w", "/", "b">> }

RECURSIVE Components(_)
\* Utf8Path::components, the root and empty components left out
Components(p) ==
    LET slashes == {i \in 1..Len(p) : p[i] = "/"}
    IN  IF p = <<>> THEN <<>>
        ELSE IF slashes = {} THEN <<p>>
        ELSE IF MinOf(slashes) = 1 THEN Components(Tail(p))
        ELSE <<Take(p, MinOf(slashes) - 1)>> \o Components(Drop(p, MinOf(slashes)))

RECURSIVE WalkFrom(_, _)
WalkFrom(dir, comps) ==
    IF comps = <<>> THEN dir
    ELSE IF Head(comps) = <<".">> THEN WalkFrom(dir, Tail(comps))
    ELSE WalkFrom(Append(dir, Head(comps)), Tail(comps))

\* How the operating system resolves path p in working directory dir
Resolve(dir, p) ==
    WalkFrom(IF p # <<>> /\ p[1] = "/" THEN <<>> ELSE dir, Components(p))

\* Path::is_dir of a resolved directory
is_dir(f, d) == d \in DOMAIN f /\ f[d] # "absent"

File(name) == [path |-> name, is_file |-> TRUE]

Dir(name) == [path |-> name, is_file |-> FALSE]

SubDirs(f, d) ==
    (IF is_dir(f, Append(d, <<"a">>)) THEN <<<<"a">>>> ELSE <<>>)
        \o (IF is_dir(f, Append(d, <<"b">>)) THEN <<<<"b">>>> ELSE <<>>)

\* WalkDir at depth 1 of d; a root that does not exist yields only an error
Listing(f, d) ==
    LET subdirs == SubDirs(f, d)
    IN  IF ~is_dir(f, d) THEN <<>>
        ELSE (IF f[d] = "movie"
              THEN <<File(W_Movie_mkv), File(W_English_srt)>>
              ELSE <<>>)
                \o [i \in DOMAIN subdirs |-> Dir(subdirs[i])]

Prefixed(name, entries) ==
    [i \in DOMAIN entries |->
        [entries[i] EXCEPT !.path = JoinPath(name, entries[i].path)]]

RECURSIVE TreeOf(_, _)
\* WalkDir below d sorted by file name: the files (upper case first), then
\* each subdirectory followed by what is below it
TreeOf(f, d) ==
    LET subdirs == SubDirs(f, d)
    IN  IF ~is_dir(f, d) THEN <<>>
        ELSE (IF f[d] = "movie"
              THEN <<File(W_English_srt), File(W_Movie_mkv)>>
              ELSE <<>>)
                \o Concat([i \in DOMAIN subdirs |->
                            <<Dir(subdirs[i])>>
                                \o Prefixed(subdirs[i],
                                            TreeOf(f, Append(d, subdirs[i])))])

\* process(path) after set_current_dir(path): the walks of path, which the
\* new working directory resolves to directory walked
process_walked(f, p, walked) == process(p, Listing(f, walked), TreeOf(f, walked))

\* process(path) in working directory dir, where path resolves to moved
process_moved(f, dir, p, moved) ==
    IF ~is_dir(f, moved)
    THEN [cwd |-> dir,
          outcome |-> Outcome("Err", "failed to move into directory",
                              <<>>, <<>>, <<>>, <<>>)]
    ELSE [cwd |-> moved, outcome |-> process_walked(f, p, Resolve(moved, p))]

\* process(path) in working directory dir
process_in(f, dir, p) == process_moved(f, dir, p, Resolve(dir, p))

NotAFolder == Outcome("Ignored", "not a folder", <<>>, <<>>, <<>>, <<>>)

\* The closure main runs for one argument, in working directory dir
main_arg(f, dir, arg) ==
    IF is_dir(f, Resolve(dir, arg))
    THEN process_in(f, dir, arg)
    ELSE [cwd |-> dir, outcome |-> NotAFolder]

InitMain ==
    /\ fs \in [AllDirs -> DirKinds]
    /\ WellFormed(fs)
    /\ args \in UNION {[1..n -> ArgPaths] : n \in 0..MaxArgs}
    /\ cwd = StartDir
    /\ argi = 0
    /\ runs = <<>>
    /\ path = NoPath /\ entry = NoEntry
    /\ videoFiles = <<>> /\ subFiles = <<>> /\ run = Pending

\* env::args().skip(1).for_each(..): the next argument
MainArg ==
    /\ argi < Len(args)
    /\ \E r \in {main_arg(fs, cwd, args[argi + 1])} :
          /\ cwd' = r.cwd
          /\ \E failing \in SUBSET (1..Len(r.outcome.links)) :
                runs' = Append(runs, symlink_results(r.outcome, failing))
    /\ argi' = argi + 1
    /\ UNCHANGED <<path, entry, videoFiles, subFiles, run, args, fs>>

\* if no_args { process(".") }
MainNoArgs ==
    /\ args = <<>>
    /\ runs = <<>>
    /\ \E r \in {process_in(fs, cwd, <<".">>)} :
          /\ cwd' = r.cwd
          /\ \E failing \in SUBSET (1..Len(r.outcome.links)) :
                runs' = <<symlink_results(r.outcome, failing)>>
    /\ UNCHANGED <<path, entry, videoFiles, subFiles, run, args, argi, fs>>

NextMain == MainArg \/ MainNoArgs

SpecMain == InitMain /\ [][NextMain]_vars

----------------------------------------------------------------------------
(* Properties of process() on one directory, under Spec *)

FatalErrors == {"NoVideosFound", "MixedSeriesAndMovies", "InconsistentTitles"}

\* The number of calls of symlink made for video v and subtitle s
Calls(v, s) ==
    Cardinality({k \in DOMAIN run.links :
                    run.links[k].video = v /\ run.links[k].subtitle = s})

\* C2: a run that ends in NoVideosFound, MixedSeriesAndMovies or
\* InconsistentTitles has called the link creator for no pairing.
C2_NoPartialLinking ==
    run.why \in FatalErrors => run.result = "Err" /\ run.links = <<>>

\* A directory whose videos are of different titles and which holds a
\* subtitle that would pair with them
C2_Witness ==
    /\ run.why = "InconsistentTitles"
    /\ \E i \in DOMAIN run.videos, j \in DOMAIN subFiles :
          /\ Subtitle_new(JoinPath(InDir, subFiles[j].path)).ok
          /\ Subtitle_new(JoinPath(InDir, subFiles[j].path)).series_info
                = run.videos[i].series_info

\* C3: when the validation of two or more videos succeeds, stripping the
\* quality/episode suffix from every video's file stem yields one and the
\* same string.
C3_IdenticalTitlePrefix ==
    (run.result = "Ok" /\ Len(run.videos) >= 2) =>
        \A i, j \in DOMAIN run.videos :
            SEASON_AND_QUALITY_SUFFIX_REGEX_splitn_next(file_stem(run.videos[i].path))
                = SEASON_AND_QUALITY_SUFFIX_REGEX_splitn_next(file_stem(run.videos[j].path))

\* The positions of the subtitles that are the first of their
\* (language, episode) key
Firsts(subs) ==
    {i \in DOMAIN subs :
        \A j \in 1..(i - 1) :
            <<subs[j].lang, subs[j].series_info>> # <<subs[i].lang, subs[i].series_info>>}

\* C4: remove_duplicate_languages keeps, in order, exactly the first
\* subtitle of each (language, episode) key: afterwards no two subtitles
\* share a key and every key of the input is still there.
C4_FirstOfEachKey ==
    run.why = "Done" =>
        /\ run.kept = [k \in 1..Cardinality(Firsts(run.subs)) |->
                          run.subs[SortedSeq(Firsts(run.subs))[k]]]
        /\ \A i, j \in DOMAIN run.kept :
              (run.kept[i].lang = run.kept[j].lang
                  /\ run.kept[i].series_info = run.kept[j].series_info) => i = j
        /\ \A i \in DOMAIN run.subs : \E k \in DOMAIN run.kept :
              /\ run.kept[k].lang = run.subs[i].lang
              /\ run.kept[k].series_info = run.subs[i].series_info

\* Two subtitles of one language, with and without an episode, and so of
\* different keys, or a duplicate that was dropped
C4_Witness ==
    /\ run.why = "Done"
    /\ \/ Len(run.kept) < Len(run.subs)
       \/ \E i, j \in DOMAIN run.kept :
             /\ run.kept[i].lang = run.kept[j].lang
             /\ run.kept[i].series_info # run.kept[j].series_info

\* C5: create_symlinks calls symlink exactly once for each video and
\* surviving subtitle with equal episode identifiers (both absent counts as
\* equal), and never for a pair with different ones.
C5_PairIffSameEpisode ==
    run.why = "Done" =>
        \A v \in DOMAIN run.videos, s \in DOMAIN run.kept :
            Calls(v, s) =
                IF run.videos[v].series_info = run.kept[s].series_info THEN 1 ELSE 0

\* An episode with a subtitle of its own and one of another episode or of none
C5_Witness ==
    /\ run.why = "Done"
    /\ \E v \in DOMAIN run.videos, s, t \in DOMAIN run.kept :
          /\ run.videos[v].series_info.some
          /\ run.kept[s].series_info = run.videos[v].series_info
          /\ run.kept[t].series_info # run.videos[v].series_info
          /\ Calls(v, s) = 1

\* The tag of a language in a link name: the two-letter code where it exists
ExpectedTag(lang) ==
    CASE lang = "Eng" -> <<"e", "n">>
      [] lang = "Fra" -> <<"f", "r">>
      [] lang = "Fil" -> <<"f", "i", "l">>

ExpectedName(stem, lang, ext) ==
    stem \o <<".">> \o ExpectedTag(lang)
         \o (IF lang = "Eng" THEN <<".", "d", "e", "f", "a", "u", "l", "t">> ELSE <<>>)
         \o <<".">> \o ext

\* C6: the link of a pairing is named
\* {video stem}.{language tag}[.default].{subtitle extension} in the
\* directory, with .default for English alone; pairings that agree on the
\* three get the same name.
C6_LinkName ==
    run.why = "Done" =>
        /\ \A k \in DOMAIN run.links :
              run.links[k].link =
                  InDir \o <<"/">>
                        \o ExpectedName(file_stem(run.videos[run.links[k].video].path),
                                        run.kept[run.links[k].subtitle].lang,
                                        extension(run.kept[run.links[k].subtitle].path))
        /\ \A k, l \in DOMAIN run.links :
              ( /\ file_stem(run.videos[run.links[k].video].path)
                      = file_stem(run.videos[run.links[l].video].path)
                /\ run.kept[run.links[k].subtitle].lang
                      = run.kept[run.links[l].subtitle].lang
                /\ extension(run.kept[run.links[k].subtitle].path)
                      = extension(run.kept[run.links[l].subtitle].path) )
              => run.links[k].link = run.links[l].link

\* A run that names a link for English and one for a language without a
\* two-letter code
C6_Witness ==
    /\ run.why = "Done"
    /\ \E k, l \in DOMAIN run.links :
          /\ run.kept[run.links[k].subtitle].lang = "Fil"
          /\ run.kept[run.links[l].subtitle].lang = "Eng"

\* Some video has an episode identifier and some other has none
Mixed(videos) ==
    \E i, j \in DOMAIN videos :
        videos[i].series_info.some /\ ~videos[j].series_info.some

\* C8: links are made only for videos that all have an episode identifier
\* or all have none, and with two or more videos the run fails with
\* MixedSeriesAndMovies exactly when they are mixed.
C8_Unmixed ==
    /\ run.links # <<>> => ~Mixed(run.videos)
    /\ Len(run.videos) >= 2 =>
          (run.why = "MixedSeriesAndMovies" <=> Mixed(run.videos))

\* A movie and an episode of one title in a directory with a subtitle
C8_Witness ==
    /\ run.why = "MixedSeriesAndMovies"
    /\ Mixed(run.videos)
    /\ subFiles # <<>>

\* C9: when calls of symlink fail, every matching pairing is still
\* attempted exactly once and process returns success.
C9_FailureIsLocal ==
    (run.why = "Done" /\ \E k \in DOMAIN run.links : ~run.links[k].ok) =>
        /\ run.result = "Ok"
        /\ \A v \in DOMAIN run.videos, s \in DOMAIN run.kept :
              run.videos[v].series_info = run.kept[s].series_info => Calls(v, s) = 1
        /\ \A k, l \in DOMAIN run.links :
              (run.links[k].video = run.links[l].video
                  /\ run.links[k].subtitle = run.links[l].subtitle) => k = l

\* A failed call that is followed by a call that succeeds
C9_Witness ==
    /\ run.why = "Done"
    /\ \E k, l \in DOMAIN run.links :
          k < l /\ ~run.links[k].ok /\ run.links[l].ok

\* C10 as stated: the links of one run have pairwise distinct paths.
C10_DistinctLinks ==
    run.why = "Done" =>
        \A k, l \in DOMAIN run.links :
            run.links[k].link = run.links[l].link => k = l

\* C10 as amended: two calls of one run name the same link only for one
\* subtitle and two videos of the same file stem.
C10_DistinctUnlessSameStem ==
    run.why = "Done" =>
        \A k, l \in DOMAIN run.links :
            (k # l /\ run.links[k].link = run.links[l].link) =>
                /\ run.links[k].subtitle = run.links[l].subtitle
                /\ run.links[k].video # run.links[l].video
                /\ file_stem(run.videos[run.links[k].video].path)
                      = file_stem(run.videos[run.links[l].video].path)

\* Two videos of different stems, each paired with two subtitles
C10_Witness ==
    /\ run.why = "Done"
    /\ Len(run.links) >= 4
    /\ \E i, j \in DOMAIN run.videos :
          file_stem(run.videos[i].path) # file_stem(run.videos[j].path)

----------------------------------------------------------------------------
(* Properties of the constructors, under SpecParse *)

\* The path has a language Subtitle::new accepts, or is a video's
LanguageResolves ==
    \/ entry.kind = "Video"
    \/ file_stem(path) \in {W_English, W_French, W_Filipino}

\* Where the leftmost S##E## of the path starts, 0 without one
FirstCode ==
    IF \E i \in 1..Len(path) : SeriesInfoMatchAt(path, i)
    THEN MinOf({i \in 1..Len(path) : SeriesInfoMatchAt(path, i)})
    ELSE 0

Season == SubSeq(path, FirstCode + 1, FirstCode + 2)

Episode == SubSeq(path, FirstCode + 4, FirstCode + 5)

Zero == <<"0", "0">>

AsciiPair(ds) == ds[1] \in AsciiDigits /\ ds[2] \in AsciiDigits

BuiltWithout == entry.ok /\ ~entry.series_info.some

----------------------------------------------------------------------------
(* Properties of main, under SpecMain *)

\* C1: what main does with a directory argument is what it does with it as
\* the only argument, started in the same working directory.
C1_Independent ==
    \A i \in DOMAIN runs :
        args # <<>> =>
            symlink_results(runs[i], {}) = main_arg(fs, StartDir, args[i]).outcome

====
